---- MODULE Spec2Model ----
(***************************************************************************)
(* Lost & Found inventory (Django app "inventory").                        *)
(*                                                                         *)
(* The relational store (Item, ItemImage, Claim, StudentLostItem, User,    *)
(* UserProfile rows), the wall clock and the last HTTP response are the    *)
(* state; every view handler is one action.  Time is counted in whole     *)
(* days, the unit of the claim windows (timedelta(days=...)).  Text fields *)
(* are sequences of one-character strings.                                 *)
(***************************************************************************)
EXTENDS Integers, Sequences, FiniteSets, TLC

VARIABLES now, users, items, images, claims, students, approvals, nextItemPk,
          nextClaimPk, nextImagePk, lastReq, page, inflight, suggestion,
          sessions, staffPage

vars == <<now, users, items, images, claims, students, approvals, nextItemPk,
          nextClaimPk, nextImagePk, lastReq, page, inflight, suggestion,
          sessions, staffPage>>

\* the rows of the store that belong to the inventory
records == <<items, images, claims, students>>

----------------------------------------------------------------------------
\* Bounds of the exploration.

\* latest clock reading of the request-handling specification
MaxTime == 1
\* number of Item rows ever inserted (primary keys 1..MaxItems)
MaxItems == 1
\* number of Claim rows ever inserted
MaxClaims == 2
\* number of StudentLostItem rows
MaxStudents == 1
\* latest clock reading of the browsing specification
MaxBrowseTime == 9
\* requests handled at the same time
MaxRequests == 2

----------------------------------------------------------------------------
\* Null values of nullable columns.

\* NULL of a DateTimeField
Null == -1
\* NULL of a ForeignKey to the user table / the anonymous visitor
AnonymousUser == "anonymous"

\* Item.Status
FOUND == "FOUND"
CLAIMED == "CLAIMED"
Status == {FOUND, CLAIMED}

\* Item.Category
ELECTRONICS == "ELECTRONICS"
BAGS_AND_CARRY == "BAGS_AND_CARRY"
SPORTS_AND_CLOTHING == "SPORTS_AND_CLOTHING"
BOTTLES_AND_CONTAINERS == "BOTTLES_AND_CONTAINERS"
DOCUMENTS_AND_IDS == "DOCUMENTS_AND_IDS"
NOTEBOOKS_AND_BOOKS == "NOTEBOOKS_AND_BOOKS"
OTHER_MISC == "OTHER_MISC"
Category == {ELECTRONICS, BAGS_AND_CARRY, SPORTS_AND_CLOTHING,
             BOTTLES_AND_CONTAINERS, DOCUMENTS_AND_IDS, NOTEBOOKS_AND_BOOKS,
             OTHER_MISC}

\* Item.ApprovalStatus and StudentLostItem.ApprovalStatus
PENDING == "PENDING"
APPROVED == "APPROVED"
REJECTED == "REJECTED"
ApprovalStatus == {PENDING, APPROVED, REJECTED}

\* Item.ItemType
SENIOR == "SENIOR"
PY == "PY"
ItemType == {SENIOR, PY}

----------------------------------------------------------------------------
\* Text.

\* str.lower() on the letters of the alphabet
UpperCase ==
    <<"A", "B", "C", "D", "E", "F", "G", "H", "I", "J", "K", "L", "M",
      "N", "O", "P", "Q", "R", "S", "T", "U", "V", "W", "X", "Y", "Z">>
LowerCase ==
    <<"a", "b", "c", "d", "e", "f", "g", "h", "i", "j", "k", "l", "m",
      "n", "o", "p", "q", "r", "s", "t", "u", "v", "w", "x", "y", "z">>

Lower(c) ==
    IF \E i \in 1..Len(UpperCase) : UpperCase[i] = c
    THEN LowerCase[CHOOSE i \in 1..Len(UpperCase) : UpperCase[i] = c]
    ELSE c

LowerText(s) == [i \in 1..Len(s) |-> Lower(s[i])]

\* field__icontains=q : q occurs in the field, ignoring case
icontains(field, q) ==
    \E i \in 0..(Len(field) - Len(q)) :
        \A j \in 1..Len(q) : Lower(field[i + j]) = Lower(q[j])

\* str.strip(), applied by forms.CharField before validation
RECURSIVE lstrip(_)
lstrip(s) == IF s # <<>> /\ Head(s) = " " THEN lstrip(Tail(s)) ELSE s

RECURSIVE rstrip(_)
rstrip(s) ==
    IF s # <<>> /\ s[Len(s)] = " " THEN rstrip(SubSeq(s, 1, Len(s) - 1)) ELSE s

strip(s) == rstrip(lstrip(s))

\* a text of n characters
Filler(n) == [i \in 1..n |-> "x"]

----------------------------------------------------------------------------
\* Accounts and roles.

Users == {"amy", "advait", "root"}
Actors == Users \cup {AnonymousUser}

\* request.user.is_authenticated
is_authenticated(user) == user \in Users

\* views.is_super_user
is_super_user(user) ==
    IF ~is_authenticated(user) THEN FALSE ELSE users[user].is_superuser

\* views.is_admin
is_admin(user) ==
    IF ~is_authenticated(user) THEN FALSE
    ELSE users[user].is_staff /\ ~is_super_user(user)

SuperUserRequired_staff(user) == is_authenticated(user) /\ users[user].is_staff

\* SuperUserRequiredMixin.test_func
SuperUserRequired(user) == is_super_user(user)

\* AdminOrSuperUserRequiredMixin.test_func
AdminOrSuperUserRequired(user) ==
    is_authenticated(user) /\ users[user].is_staff

\* StaffRequiredMixin.test_func
StaffRequired(user) ==
    is_authenticated(user) /\ users[user].is_staff /\ ~is_super_user(user)

\* LoginRequiredMixin followed by a UserPassesTestMixin: the outcome of
\* dispatch() before the handler runs ("pass" lets the handler run)
Dispatch(user, test) ==
    IF ~is_authenticated(user) THEN "login_redirect"
    ELSE IF ~test THEN "forbidden"
    ELSE "pass"

\* UserProfile.save: the hard-wired account is always flagged
UserProfile_save(username, flag) ==
    IF username = "advait" THEN TRUE ELSE flag

----------------------------------------------------------------------------
\* The last request and its response.

\* op: the handler; kind, pk: the rows the handler looked up (none when the
\* request was turned away at dispatch); status: how it was answered
NoReq == [op |-> "none", kind |-> "", pk |-> Null, status |-> ""]

Req(op, kind, pk, status) == [op |-> op, kind |-> kind, pk |-> pk, status |-> status]

----------------------------------------------------------------------------
\* The public listings.

\* GET parameters: "" / <<>> / Null stand for a parameter that is absent or
\* empty (both falsy in the views); BadDate is a text that is not a date
NoFilter == [category |-> "", q |-> <<>>, location |-> <<>>,
             date_from |-> Null, date_to |-> Null]
BadDate == 0

\* django.utils.dateparse.parse_date on (param or ""): a date, or None
parse_date(param) == IF param = Null \/ param = BadDate THEN Null ELSE param

\* ItemListView.get_claim_duration_days
ItemListView_get_claim_duration_days(category) ==
    CASE category = ELECTRONICS -> 7
      [] category = SPORTS_AND_CLOTHING -> 3
      [] category = BAGS_AND_CARRY -> 1
      [] category = BOTTLES_AND_CONTAINERS -> 1
      [] category = OTHER_MISC -> 1
      [] category = DOCUMENTS_AND_IDS -> 1
      [] category = NOTEBOOKS_AND_BOOKS -> 1
      [] OTHER -> 1

\* PrimaryYearsListView's table with the Electronics entry of Sports
PrimaryYearsListView_get_claim_duration_days_short(category) ==
    CASE category = ELECTRONICS -> 3
      [] category = SPORTS_AND_CLOTHING -> 3
      [] OTHER -> 1

\* PrimaryYearsListView.get_claim_duration_days
PrimaryYearsListView_get_claim_duration_days(category) ==
    CASE category = ELECTRONICS -> 7
      [] category = SPORTS_AND_CLOTHING -> 3
      [] category = BAGS_AND_CARRY -> 1
      [] category = BOTTLES_AND_CONTAINERS -> 1
      [] category = OTHER_MISC -> 1
      [] category = DOCUMENTS_AND_IDS -> 1
      [] category = NOTEBOOKS_AND_BOOKS -> 1
      [] OTHER -> 1

\* ItemListView's window test with a strict comparison
ItemListView_claimed_q_strict(item, t) ==
    \E category \in Category :
        /\ item.status = CLAIMED
        /\ item.category = category
        /\ item.claimed_at # Null
        /\ item.claimed_at > t - ItemListView_get_claim_duration_days(category)

\* claimed_q_objects of ItemListView.get_queryset: the OR over the category
\* choices of Q(status=CLAIMED, category=c, claimed_at__isnull=False,
\* claimed_at__gte=now - timedelta(days=duration(c)))
ItemListView_claimed_q(item, t) ==
    \E category \in Category :
        /\ item.status = CLAIMED
        /\ item.category = category
        /\ item.claimed_at # Null
        /\ item.claimed_at >= t - ItemListView_get_claim_duration_days(category)

\* claimed_q_objects of PrimaryYearsListView.get_queryset
PrimaryYearsListView_claimed_q(item, t) ==
    \E category \in Category :
        /\ item.status = CLAIMED
        /\ item.category = category
        /\ item.claimed_at # Null
        /\ item.claimed_at >=
               t - PrimaryYearsListView_get_claim_duration_days(category)

\* the optional filters shared by the two listings (views.py 219-241 and
\* 462-484): each one narrows the queryset when its parameter is truthy
OptionalFilters(item, params) ==
    /\ params.category # "" => item.category = params.category
    /\ params.q # <<>> =>
           icontains(item.title, params.q) \/ icontains(item.description, params.q)
    /\ params.location # <<>> => icontains(item.location_found, params.location)
    /\ parse_date(params.date_from) # Null =>
           item.date_found >= parse_date(params.date_from)
    /\ parse_date(params.date_to) # Null =>
           item.date_found <= parse_date(params.date_to)

\* ItemListView.get_queryset: the primary keys of the rows it returns
ItemListView_get_queryset(db, t, params) ==
    {pk \in DOMAIN db :
        /\ db[pk].status = FOUND \/ ItemListView_claimed_q(db[pk], t)
        /\ db[pk].approval_status = APPROVED
        /\ db[pk].item_type = SENIOR
        /\ OptionalFilters(db[pk], params)}

\* PrimaryYearsListView's queryset without the approval filter
PrimaryYearsListView_get_queryset_unfiltered(db, t, params) ==
    {pk \in DOMAIN db :
        /\ db[pk].status = FOUND \/ PrimaryYearsListView_claimed_q(db[pk], t)
        /\ db[pk].item_type = PY
        /\ OptionalFilters(db[pk], params)}

\* PrimaryYearsListView.get_queryset
PrimaryYearsListView_get_queryset(db, t, params) ==
    {pk \in DOMAIN db :
        /\ db[pk].status = FOUND \/ PrimaryYearsListView_claimed_q(db[pk], t)
        /\ db[pk].approval_status = APPROVED
        /\ db[pk].item_type = PY
        /\ OptionalFilters(db[pk], params)}

\* the listing a segment's URL serves (urls.py: browse/ and primary-years/)
Listing(view, db, t, params) ==
    IF view = SENIOR THEN ItemListView_get_queryset(db, t, params)
    ELSE PrimaryYearsListView_get_queryset(db, t, params)

NoPage == [view |-> "none", params |-> NoFilter, object_list |-> {}]

\* the GET parameter combinations the listings are browsed with
FilterParams ==
    { NoFilter,
      [NoFilter EXCEPT !.category = ELECTRONICS],
      [NoFilter EXCEPT !.category = "BOGUS"],
      [NoFilter EXCEPT !.q = <<"b", "A">>],
      [NoFilter EXCEPT !.location = <<"g", "y">>],
      [NoFilter EXCEPT !.date_from = 2],
      [NoFilter EXCEPT !.date_to = 1],
      [NoFilter EXCEPT !.date_from = BadDate, !.date_to = 2],
      [NoFilter EXCEPT !.category = OTHER_MISC, !.q = <<"C">>, !.date_from = 1] }

----------------------------------------------------------------------------
\* Rows.

Extend(f, k, v) == [x \in DOMAIN f \cup {k} |-> IF x = k THEN v ELSE f[x]]
Remove(f, k) == [x \in DOMAIN f \ {k} |-> f[x]]
NoRows == [x \in {} |-> 0]

\* an uploaded file that is not an image
BadImage == -1

\* the POST bodies the upload form is submitted with; approval_status is a
\* key the form does not declare
PlainPost ==
    [title |-> <<"B", "a", "g">>, description |-> <<>>,
     location_found |-> <<"G", "y", "m">>, date_found |-> 1, status |-> FOUND,
     category |-> OTHER_MISC, approval_status |-> "", images |-> 0]

\* a POST that marks the item claimed and tries to set its approval
ForgedPost ==
    [PlainPost EXCEPT !.title = <<" ", "C", "a", "p">>, !.status = CLAIMED,
                      !.category = ELECTRONICS, !.approval_status = APPROVED,
                      !.images = 1]

ValidPosts == {PlainPost, ForgedPost}

UploadPosts ==
    ValidPosts \cup {
      [PlainPost EXCEPT !.title = <<" ">>, !.approval_status = REJECTED],
      [PlainPost EXCEPT !.category = "BOGUS", !.images = BadImage] }

\* ItemForm.is_valid: Meta.fields validated against the model's columns
ItemForm_is_valid(post) ==
    /\ strip(post.title) # <<>> /\ Len(strip(post.title)) <= 255
    /\ Len(strip(post.location_found)) <= 255
    /\ post.date_found # Null /\ post.date_found # BadDate
    /\ post.status \in Status
    /\ post.category \in Category

\* ItemImageFormSet.is_valid
ItemImageFormSet_is_valid(post) == post.images # BadImage

\* ItemForm.save(commit=False): the declared fields from the POST, every
\* other column at its model default (models.py 53-89)
ItemForm_save(post) ==
    [title |-> strip(post.title),
     description |-> strip(post.description),
     location_found |-> strip(post.location_found),
     date_found |-> post.date_found,
     status |-> post.status,
     category |-> post.category,
     approval_status |-> APPROVED,
     item_type |-> SENIOR,
     created_by |-> AnonymousUser,
     claimed_by_name |-> <<>>,
     claimed_at |-> Null,
     created_at |-> Null]

\* formset.save(): one ItemImage row per submitted image
SaveImages(post, itemPk) ==
    IF post.images > 0
    THEN /\ images' = images \cup {[pk |-> nextImagePk, item |-> itemPk]}
         /\ nextImagePk' = nextImagePk + 1
    ELSE UNCHANGED <<images, nextImagePk>>

claim_count_all(cl, itemPk) == Cardinality(cl)

\* Item.claim_count
claim_count(cl, itemPk) == Cardinality({c \in cl : c.item = itemPk})

----------------------------------------------------------------------------
\* Vision suggestions (inventory/services.py).

\* normalize_category: the keywords looked for, in the order of the tests
ElectronicsKeywords ==
    {<<"e", "l", "e", "c", "t", "r", "o", "n", "i", "c">>,
     <<"l", "a", "p", "t", "o", "p">>,
     <<"p", "h", "o", "n", "e">>,
     <<"t", "a", "b", "l", "e", "t">>,
     <<"c", "h", "a", "r", "g", "e", "r">>}
BagKeywords ==
    {<<"b", "a", "g">>,
     <<"b", "a", "c", "k", "p", "a", "c", "k">>,
     <<"c", "a", "r", "r", "y">>,
     <<"l", "u", "g", "g", "a", "g", "e">>}
ClothingKeywords ==
    {<<"c", "l", "o", "t", "h">>,
     <<"s", "h", "i", "r", "t">>,
     <<"p", "a", "n", "t", "s">>,
     <<"j", "a", "c", "k", "e", "t">>,
     <<"s", "h", "o", "e">>,
     <<"w", "e", "a", "r", "a", "b", "l", "e">>,
     <<"s", "p", "o", "r", "t">>}
BottleKeywords ==
    {<<"b", "o", "t", "t", "l", "e">>,
     <<"f", "l", "a", "s", "k">>,
     <<"c", "o", "n", "t", "a", "i", "n", "e", "r">>,
     <<"t", "u", "p", "p", "e", "r", "w", "a", "r", "e">>}
DocumentKeywords ==
    {<<"d", "o", "c", "u", "m", "e", "n", "t">>,
     <<"i", "d">>,
     <<"p", "a", "s", "s", "p", "o", "r", "t">>,
     <<"l", "i", "c", "e", "n", "s", "e">>,
     <<"c", "a", "r", "d">>}
BookKeywords ==
    {<<"n", "o", "t", "e", "b", "o", "o", "k">>,
     <<"b", "o", "o", "k">>,
     <<"d", "i", "a", "r", "y">>}

\* kw in v, for some kw of kws
HasAny(v, kws) ==
    \E kw \in kws : \E i \in 0..(Len(v) - Len(kw)) :
        \A j \in 1..Len(kw) : v[i + j] = kw[j]

normalize_category_bags_first(value) ==
    LET v == LowerText(value) IN
    IF HasAny(v, BagKeywords) THEN BAGS_AND_CARRY
    ELSE IF HasAny(v, ElectronicsKeywords) THEN ELECTRONICS
    ELSE IF HasAny(v, ClothingKeywords) THEN SPORTS_AND_CLOTHING
    ELSE IF HasAny(v, BottleKeywords) THEN BOTTLES_AND_CONTAINERS
    ELSE IF HasAny(v, DocumentKeywords) THEN DOCUMENTS_AND_IDS
    ELSE IF HasAny(v, BookKeywords) THEN NOTEBOOKS_AND_BOOKS
    ELSE OTHER_MISC

\* normalize_category
normalize_category(value) ==
    LET v == LowerText(value) IN
    IF HasAny(v, ElectronicsKeywords) THEN ELECTRONICS
    ELSE IF HasAny(v, BagKeywords) THEN BAGS_AND_CARRY
    ELSE IF HasAny(v, ClothingKeywords) THEN SPORTS_AND_CLOTHING
    ELSE IF HasAny(v, BottleKeywords) THEN BOTTLES_AND_CONTAINERS
    ELSE IF HasAny(v, DocumentKeywords) THEN DOCUMENTS_AND_IDS
    ELSE IF HasAny(v, BookKeywords) THEN NOTEBOOKS_AND_BOOKS
    ELSE OTHER_MISC

\* the category labels the prompt offers, in the order of Item.Category
PromptLabels ==
    <<<<"E", "l", "e", "c", "t", "r", "o", "n", "i", "c", "s">>,
      <<"B", "a", "g", "s", " ", "a", "n", "d", " ", "C", "a", "r", "r", "y">>,
      <<"S", "p", "o", "r", "t", "s", " ", "a", "n", "d", " ", "c", "l", "o", "t", "h", "i", "n", "g">>,
      <<"B", "o", "t", "t", "l", "e", "s", " ", "a", "n", "d", " ", "c", "o", "n", "t", "a", "i", "n", "e", "r", "s">>,
      <<"D", "o", "c", "u", "m", "e", "n", "t", "s", " ", "a", "n", "d", " ", "I", "d", "\\", "\"", "s">>,
      <<"N", "o", "t", "e", "b", "o", "o", "k", "s", "/", "b", "o", "o", "k", "s">>,
      <<"O", "t", "h", "e", "r", "/", "M", "i", "s", "c">>>>

\* free-text categories the vision model answers with
CategoryTexts ==
    {PromptLabels[i] : i \in 1..Len(PromptLabels)} \cup
    {<<>>,
     <<"l", "a", "p", "t", "o", "p">>,
     <<"i", "P", "h", "o", "n", "e", " ", "c", "h", "a", "r", "g", "e", "r">>,
     <<"T", "a", "b", "l", "e", "t">>,
     <<"L", "A", "P", "T", "O", "P", " ", "B", "A", "G">>,
     <<"H", "a", "n", "d", "b", "a", "g", " ", "w", "i", "t", "h", " ", "p", "h", "o", "n", "e">>,
     <<"b", "a", "c", "k", "p", "a", "c", "k">>,
     <<"C", "a", "r", "r", "y", "-", "o", "n", " ", "l", "u", "g", "g", "a", "g", "e">>,
     <<"W", "a", "t", "e", "r", " ", "b", "o", "t", "t", "l", "e", " ", "b", "a", "g">>,
     <<"U", "m", "b", "r", "e", "l", "l", "a">>,
     <<"K", "e", "y", "s">>,
     <<"J", "a", "c", "k", "e", "t">>,
     <<"G", "r", "i", "d", " ", "p", "a", "p", "e", "r">>,
     <<"D", "i", "a", "r", "y">>}

\* JSON values as json.loads returns them; "missing" is a key the object
\* does not have, "zero" the number 0, "number" and "list" a non-zero number
\* and a non-empty list
JValue(type, text) == [type |-> type, text |-> text]
JMissing == JValue("missing", <<>>)
JNull == JValue("null", <<>>)
JStr(text) == JValue("str", text)

\* the value json.loads(content_text) returns: an object with the three
\* keys the prompt asks for, or a value that is not an object
JObject(title, description, category) ==
    [type |-> "object", title |-> title, description |-> description,
     category |-> category]
JNotObject(type) ==
    [type |-> type, title |-> JMissing, description |-> JMissing,
     category |-> JMissing]

\* bool(value) of a JSON value; dict.get gives None for a missing key
truthy(value) ==
    \/ value.type \in {"number", "list"}
    \/ value.type = "str" /\ value.text # <<>>

\* (parsed.get(key) or "").strip() raises AttributeError on a truthy value
\* that is not a string
field_raises(value) == truthy(value) /\ value.type # "str"
field_text(value) == IF truthy(value) THEN strip(value.text) ELSE <<>>

\* what the network does to requests.post and, after a 404, to requests.get
World(post, status, body, parsed) ==
    [post |-> post, status |-> status, body |-> body, parsed |-> parsed]

ParsedValues ==
    {JNotObject(t) : t \in {"list", "null", "number", "str"}}
      \cup {JObject(t, d, c) :
               t \in {JStr(<<" ", "C", "a", "p", " ">>), JValue("number", <<>>)},
               d \in {JStr(<<"r", "e", "d">>)},
               c \in {JMissing, JNull, JValue("list", <<>>)}}
      \cup {JObject(t, d, JStr(c)) :
               t \in {JStr(<<" ", "C", "a", "p", " ">>), JMissing},
               d \in {JStr(<<>>), JValue("zero", <<>>)},
               c \in CategoryTexts}

Worlds ==
    {World(p, 200, "json", JNotObject("null")) :
        p \in {"connection_error", "timeout"}}
      \cup {World("response", st, "json", JNotObject("null")) : st \in {404, 500}}
      \cup {World("response", 200, b, JNotObject("null")) :
               b \in {"not_json", "no_candidates", "text_not_json"}}
      \cup {World("response", 200, "json", v) : v \in ParsedValues}

\* a mapping is a set of <<key, value>> pairs
Returned(mapping, calls) == [raised |-> FALSE, mapping |-> mapping, calls |-> calls]
Raised(calls) == [raised |-> TRUE, mapping |-> {}, calls |-> calls]
Keys(mapping) == {kv[1] : kv \in mapping}

\* analyze_item_images(files) with settings.GOOGLE_API_KEY = api_key; a file
\* is "ok" or "unreadable" (read() raises); calls counts the HTTP requests
analyze_item_images(api_key, files, world) ==
    LET image_parts == SelectSeq(files, LAMBDA f : f = "ok")
        parsed == world.parsed
    IN
    IF api_key = "" THEN Returned({}, 0)
    ELSE IF files = <<>> THEN Returned({}, 0)
    ELSE IF image_parts = <<>> THEN Returned({}, 0)
    ELSE IF world.post # "response" THEN Returned({}, 1)
    ELSE IF world.status # 200
    THEN Returned({}, IF world.status = 404 THEN 2 ELSE 1)
    ELSE IF world.body # "json" THEN Returned({}, 1)
    ELSE IF parsed.type # "object" THEN Raised(1)
    ELSE IF \/ field_raises(parsed.title)
            \/ field_raises(parsed.description)
            \/ field_raises(parsed.category)
    THEN Raised(1)
    ELSE Returned({<<"title", field_text(parsed.title)>>,
                   <<"description", field_text(parsed.description)>>,
                   <<"category",
                     normalize_category(field_text(parsed.category))>>}, 1)

\* a call of the analysis: the credential, the uploaded image files and what
\* the network answers
Call(api_key, files, world) ==
    [api_key |-> api_key, files |-> files, world |-> world]
NoCall == Call("", <<>>, World("timeout", 200, "json", JNotObject("null")))

\* the last analysis: who ran it ("service": analyze_item_images called
\* directly, "ajax": through the endpoint), with what, and what came back
NoSuggestion ==
    [via |-> "none", call |-> NoCall, raised |-> FALSE, mapping |-> {},
     calls |-> 0]

\* the browser sessions of the staff area and, for each, the value of
\* request.session['dismissed_message_ids']
Sessions == {"s1", "s2"}
NoSessions == [s \in Sessions |-> {}]

\* the last page of the staff area that was rendered
NoStaffPage == [view |-> "none", session |-> "", rows |-> <<>>]

----------------------------------------------------------------------------
Init ==
    /\ now = 0
    /\ users = [u \in Users |->
                  [is_staff |-> u \in {"amy", "root"},
                   is_superuser |-> u = "root",
                   has_profile |-> FALSE,
                   profile_is_super_user |-> FALSE]]
    /\ items = NoRows
    /\ images = {}
    /\ claims = {}
    /\ students = NoRows
    /\ approvals = {}
    /\ nextItemPk = 1
    /\ nextClaimPk = 1
    /\ nextImagePk = 1
    /\ lastReq = NoReq
    /\ page = NoPage
    /\ inflight = NoRows
    /\ suggestion = NoSuggestion
    /\ sessions = NoSessions
    /\ staffPage = NoStaffPage

\* a request that is answered without touching any row
Answer(req) ==
    /\ lastReq' = req
    /\ UNCHANGED <<sessions, staffPage, inflight, suggestion,
                   now, users, items, images, claims, students, approvals,
                   nextItemPk, nextClaimPk, nextImagePk, page>>

ItemUploadView_approval_default(actor) == APPROVED

\* ItemUploadView.post, lines 102-106: the approval status by role
ItemUploadView_approval(actor) ==
    IF is_super_user(actor) THEN APPROVED ELSE PENDING

\* ItemUploadView.post
ItemUploadView_post(actor, post) ==
    LET d == Dispatch(actor, AdminOrSuperUserRequired(actor)) IN
    IF d # "pass"
    THEN Answer(Req("upload", "", Null, d))
    ELSE IF ~(ItemForm_is_valid(post) /\ ItemImageFormSet_is_valid(post))
    THEN Answer(Req("upload", "", Null, "form_errors"))
    ELSE /\ nextItemPk <= MaxItems
         /\ LET item == [ItemForm_save(post) EXCEPT
                            !.created_by = actor,
                            !.approval_status = ItemUploadView_approval(actor),
                            !.created_at = now]
            IN items' = Extend(items, nextItemPk, item)
         /\ nextItemPk' = nextItemPk + 1
         /\ SaveImages(post, nextItemPk)
         /\ lastReq' = Req("upload", "", nextItemPk, "redirect")
         /\ UNCHANGED <<sessions, staffPage, inflight, suggestion,
                        now, users, claims, students, approvals, nextClaimPk, page>>

\* ItemUploadConfirmView.post
ItemUploadConfirmView_post(actor, post) ==
    LET d == Dispatch(actor, StaffRequired(actor)) IN
    IF d # "pass"
    THEN Answer(Req("upload_confirm", "", Null, d))
    ELSE IF ~(ItemForm_is_valid(post) /\ ItemImageFormSet_is_valid(post))
    THEN Answer(Req("upload_confirm", "", Null, "form_errors"))
    ELSE /\ nextItemPk <= MaxItems
         /\ LET item == [ItemForm_save(post) EXCEPT !.created_by = actor,
                                                    !.created_at = now]
            IN items' = Extend(items, nextItemPk, item)
         /\ nextItemPk' = nextItemPk + 1
         /\ SaveImages(post, nextItemPk)
         /\ lastReq' = Req("upload_confirm", "", nextItemPk, "redirect")
         /\ UNCHANGED <<sessions, staffPage, inflight, suggestion,
                        now, users, claims, students, approvals, nextClaimPk, page>>

\* the names the claim form is submitted with
ValidNames == {<<"A", "n", "n">>, <<" ", "B", "o">>}
ClaimNames == ValidNames \cup {<<>>, <<" ">>, Filler(256)}

\* the primary keys requests name: every key ever issued and one never issued
ItemPks == 1..(MaxItems + 1)

ClaimItemForm_is_valid_unstripped(name) == name # <<>> /\ Len(name) <= 255

\* ClaimItemForm.is_valid: name is required, stripped, at most 255 characters
ClaimItemForm_is_valid(name) == strip(name) # <<>> /\ Len(strip(name)) <= 255

\* ClaimItemView.post.  Claim.claimed_at (auto_now_add) is read from the clock
\* when the Claim row is inserted; item.claimed_at is a second reading of the
\* clock, d later
ClaimItemView_is_first_always(item) == TRUE

ClaimItemView_is_first_approved(item) ==
    item.status = FOUND /\ item.approval_status = APPROVED

\* line 282: the legacy columns are stamped while the item is still FOUND
ClaimItemView_is_first(item) == item.status = FOUND

ClaimItemView_stamp_name_only(item, name, t) ==
    [item EXCEPT !.claimed_by_name = name, !.claimed_at = t]

ClaimItemView_stamp_approving(item, name, t) ==
    [item EXCEPT !.status = CLAIMED, !.claimed_by_name = name, !.claimed_at = t,
                 !.approval_status = APPROVED]

ClaimItemView_stamp(item, name, t) ==
    [item EXCEPT !.status = CLAIMED, !.claimed_by_name = name, !.claimed_at = t]

ClaimItemView_post(pk, name) ==
    IF pk \notin DOMAIN items
    THEN Answer(Req("claim", "", pk, "not_found"))
    ELSE IF ~ClaimItemForm_is_valid(name)
    THEN Answer(Req("claim", "", pk, "form_errors"))
    ELSE /\ nextClaimPk <= MaxClaims
         /\ claims' = claims \cup {[pk |-> nextClaimPk, item |-> pk,
                                    claimant_name |-> strip(name),
                                    claimed_at |-> now]}
         /\ nextClaimPk' = nextClaimPk + 1
         /\ IF ClaimItemView_is_first(items[pk])
            THEN \E d \in 0..1 :
                    /\ now + d <= MaxTime
                    /\ items' = [items EXCEPT ![pk] =
                           ClaimItemView_stamp(@, strip(name), now + d)]
                    /\ now' = now + d
            ELSE UNCHANGED <<items, now>>
         /\ lastReq' = Req("claim", "", pk, "redirect")
         /\ UNCHANGED <<sessions, staffPage, inflight, suggestion,
                        users, images, students, approvals, nextItemPk,
                        nextImagePk, page>>

get_pending_or_404_any_status(rows, pk) == pk \in DOMAIN rows

get_pending_or_404_missing_ok(rows, pk) ==
    pk \notin DOMAIN rows \/ rows[pk].approval_status = PENDING

\* get_object_or_404(Model, pk=item_id, approval_status=PENDING) finds a row
get_pending_or_404(rows, pk) ==
    pk \in DOMAIN rows /\ rows[pk].approval_status = PENDING

\* the shared body of ApproveItemView.post and RejectItemView.post: verdict
\* is the approval status the handler writes
Decide(op, actor, kind, pk, verdict) ==
    LET d == Dispatch(actor, SuperUserRequired(actor)) IN
    IF d # "pass"
    THEN Answer(Req(op, "", Null, d))
    ELSE IF kind = "admin"
    THEN IF ~get_pending_or_404(items, pk)
         THEN Answer(Req(op, kind, pk, "not_found"))
         ELSE /\ items' = [items EXCEPT ![pk] =
                              [@ EXCEPT !.approval_status = verdict]]
              /\ approvals' = IF verdict = APPROVED THEN approvals \cup {pk}
                              ELSE approvals
              /\ lastReq' = Req(op, kind, pk, "redirect")
              /\ UNCHANGED <<sessions, staffPage, inflight, suggestion,
                             now, users, images, claims, students, nextItemPk,
                             nextClaimPk, nextImagePk, page>>
    ELSE IF kind = "student"
    THEN IF ~get_pending_or_404(students, pk)
         THEN Answer(Req(op, kind, pk, "not_found"))
         ELSE /\ students' = [students EXCEPT ![pk] =
                                 [@ EXCEPT !.approval_status = verdict,
                                           !.approved_by = actor,
                                           !.approved_at = now]]
              /\ lastReq' = Req(op, kind, pk, "redirect")
              /\ UNCHANGED <<sessions, staffPage, inflight, suggestion,
                             now, users, items, images, claims, approvals,
                             nextItemPk, nextClaimPk, nextImagePk, page>>
    ELSE Answer(Req(op, kind, Null, "invalid_type"))

\* ApproveItemView.post
ApproveItemView_post(actor, kind, pk) == Decide("approve", actor, kind, pk, APPROVED)

\* RejectItemView.post
RejectItemView_post(actor, kind, pk) == Decide("reject", actor, kind, pk, REJECTED)

\* the request bodies the dashboard is POSTed with
DashboardBodies ==
    [json : {TRUE}, action : {"delete_item"}, item_id : ItemPks]
      \cup {[json |-> TRUE, action |-> "dismiss_message", item_id |-> Null,
             session |-> "s1", message_id |-> <<Null, Null>>],
            [json |-> TRUE, action |-> "bogus", item_id |-> Null],
            [json |-> FALSE, action |-> "", item_id |-> Null]}

AdminDashboardView_post_no_cascade(actor, body) ==
    IF body.action = "delete_item" /\ body.item_id \in DOMAIN items
    THEN /\ items' = Remove(items, body.item_id)
         /\ lastReq' = Req("dashboard_post", body.action, body.item_id, "ok")
         /\ UNCHANGED <<sessions, staffPage, inflight, suggestion, now, users,
                        images, claims, students, approvals, nextItemPk,
                        nextClaimPk, nextImagePk, page>>
    ELSE Answer(Req("dashboard_post", body.action, Null, "bad_request"))

\* AdminDashboardView.post: dismiss_message touches the session only,
\* delete_item deletes the Item and, by cascade, its Claims and ItemImages
AdminDashboardView_post(actor, body) ==
    LET d == Dispatch(actor, AdminOrSuperUserRequired(actor)) IN
    IF d # "pass"
    THEN Answer(Req("dashboard_post", "", Null, d))
    ELSE IF ~body.json
    THEN Answer(Req("dashboard_post", body.action, Null, "bad_request"))
    ELSE IF body.action = "dismiss_message"
    THEN /\ sessions' = [sessions EXCEPT ![body.session] =
                             @ \cup {body.message_id}]
         /\ lastReq' = Req("dashboard_post", body.action, Null, "ok")
         /\ UNCHANGED <<staffPage, inflight, suggestion, now, users, items,
                        images, claims, students, approvals, nextItemPk,
                        nextClaimPk, nextImagePk, page>>
    ELSE IF body.action = "delete_item"
    THEN IF body.item_id \notin DOMAIN items
         THEN Answer(Req("dashboard_post", body.action, body.item_id, "not_found"))
         ELSE /\ items' = Remove(items, body.item_id)
              /\ claims' = {c \in claims : c.item # body.item_id}
              /\ images' = {i \in images : i.item # body.item_id}
              /\ lastReq' = Req("dashboard_post", body.action, body.item_id, "ok")
              /\ UNCHANGED <<sessions, staffPage, inflight, suggestion,
                             now, users, students, approvals, nextItemPk,
                             nextClaimPk, nextImagePk, page>>
    ELSE Answer(Req("dashboard_post", body.action, Null, "bad_request"))

\* an entry of the approval queue: 'type', the row's key, and the time the
\* sort key reads (created_at of an Item, submitted_at of a StudentLostItem)
QueueEntry(type, pk, at) == [type |-> type, pk |-> pk, at |-> at]

\* filter(approval_status=PENDING)
pending(rows) == {pk \in DOMAIN rows : rows[pk].approval_status = PENDING}

\* order_by('-<column>') of the entries E: non-increasing in the column, rows
\* with equal values in whatever order the database returns them
order_by_desc(E) ==
    {q \in [1..Cardinality(E) -> E] :
        /\ \A i, j \in DOMAIN q : i # j => q[i] # q[j]
        /\ \A i, j \in DOMAIN q : i < j => q[i].at >= q[j].at}

list_sort_keep(seq) == seq

\* list.sort(key=..., reverse=True): stable, entries with equal keys keep the
\* order they had
RECURSIVE list_sort_reverse(_)
list_sort_reverse(seq) ==
    IF seq = <<>> THEN <<>>
    ELSE LET rest == list_sort_reverse(Tail(seq))
             x == Head(seq)
             k == Cardinality({i \in 1..Len(rest) : rest[i].at > x.at})
         IN SubSeq(rest, 1, k) \o <<x>> \o SubSeq(rest, k + 1, Len(rest))

\* ApprovalQueueView.get_queryset: the lists it can return
ApprovalQueueView_get_queryset(db, st) ==
    LET admin_items ==
            order_by_desc({QueueEntry("admin_item", pk, db[pk].created_at) :
                              pk \in pending(db)})
        student_items ==
            order_by_desc({QueueEntry("student_item", pk, st[pk].submitted_at) :
                              pk \in pending(st)})
    IN {list_sort_reverse([i \in 1..Len(a) |-> a[i]] \o [i \in 1..Len(b) |-> b[i]]) :
           a \in admin_items, b \in student_items}

\* ApprovalQueueView.get
ApprovalQueueView_get(actor) ==
    LET d == Dispatch(actor, SuperUserRequired(actor)) IN
    IF d # "pass"
    THEN Answer(Req("approval_queue", "", Null, d))
    ELSE /\ \E q \in ApprovalQueueView_get_queryset(items, students) :
              staffPage' = [view |-> "approval_queue", session |-> "",
                            rows |-> q]
         /\ lastReq' = Req("approval_queue", "", Null, "ok")
         /\ UNCHANGED <<sessions, inflight, suggestion, now, users, items,
                        images, claims, students, approvals, nextItemPk,
                        nextClaimPk, nextImagePk, page>>

\* message_id = f"claim_{claim.pk}_{claim.claimed_at.timestamp()}"
message_id(claim) == <<claim.pk, claim.claimed_at>>

\* Claim.objects.filter(claimed_at__gte=now - 7 days).order_by('-claimed_at'):
\* the orders the query can return; at is the column claimed_at
recent_claims(cl, t) ==
    order_by_desc({[id |-> message_id(c), item_id |-> c.item,
                    claimant_name |-> c.claimant_name, at |-> c.claimed_at] :
                      c \in {x \in cl : x.claimed_at >= t - 7}})

claim_messages_all(recent, dismissed) == [i \in 1..Len(recent) |-> recent[i]]

\* lines 344-353: one message for each recent claim whose id is not dismissed
claim_messages(recent, dismissed) ==
    SelectSeq([i \in 1..Len(recent) |-> recent[i]],
              LAMBDA m : m.id \notin dismissed)

\* AdminDashboardView.get in the browser session `session`
AdminDashboardView_get(actor, session) ==
    LET d == Dispatch(actor, AdminOrSuperUserRequired(actor)) IN
    IF d # "pass"
    THEN Answer(Req("dashboard", "", Null, d))
    ELSE /\ \E recent \in recent_claims(claims, now) :
              staffPage' = [view |-> "dashboard", session |-> session,
                            rows |-> claim_messages(recent, sessions[session])]
         /\ lastReq' = Req("dashboard", "", Null, "ok")
         /\ UNCHANGED <<sessions, inflight, suggestion, now, users, items,
                        images, claims, students, approvals, nextItemPk,
                        nextClaimPk, nextImagePk, page>>

\* DetailView.get: the object of get_queryset with the URL's pk, or a 404
Detail(view, rows, pk) ==
    IF pk \notin rows
    THEN /\ lastReq' = Req(view, "", pk, "not_found")
         /\ UNCHANGED <<sessions, staffPage, inflight, suggestion, now, users,
                        items, images, claims, students, approvals, nextItemPk,
                        nextClaimPk, nextImagePk, page>>
    ELSE /\ page' = [view |-> view, params |-> NoFilter, object_list |-> {pk}]
         /\ lastReq' = Req(view, "", pk, "ok")
         /\ UNCHANGED <<sessions, staffPage, inflight, suggestion, now, users,
                        items, images, claims, students, approvals, nextItemPk,
                        nextClaimPk, nextImagePk>>

\* ItemDetailView.get_queryset: Item.objects, unfiltered
ItemDetailView_get_queryset(db) == DOMAIN db

\* ItemDetailView.get
ItemDetailView_get(pk) ==
    Detail("item_detail", ItemDetailView_get_queryset(items), pk)

\* StudentLostItemDetailView.get_queryset
StudentLostItemDetailView_get_queryset(st) ==
    {pk \in DOMAIN st : st[pk].approval_status = APPROVED}

\* StudentLostItemDetailView.get
StudentLostItemDetailView_get(pk) ==
    Detail("student_lost_item_detail",
           StudentLostItemDetailView_get_queryset(students), pk)

\* StudentLostItemsListView.get_queryset with the GET parameter q
StudentLostItemsListView_get_queryset(st, q) ==
    {pk \in DOMAIN st :
        /\ st[pk].approval_status = APPROVED
        /\ q # <<>> => \/ icontains(st[pk].title, q)
                       \/ icontains(st[pk].description, q)}

\* StudentLostItemsListView.get
StudentLostItemsListView_get(q) ==
    /\ page' = [view |-> "student_lost_items_list",
                params |-> [NoFilter EXCEPT !.q = q],
                object_list |-> StudentLostItemsListView_get_queryset(students, q)]
    /\ lastReq' = Req("student_lost_items_list", "", Null, "ok")
    /\ UNCHANGED <<sessions, staffPage, inflight, suggestion, now, users,
                   items, images, claims, students, approvals, nextItemPk,
                   nextClaimPk, nextImagePk>>

\* the calls the analysis is run with
GateCalls == {NoCall, Call("key", <<"ok">>, NoCall.world)}
AnalyzeCalls ==
    {Call(k, f, NoCall.world) :
        k \in {"", "key"},
        f \in {<<>>, <<"unreadable">>, <<"ok">>, <<"unreadable", "ok">>}}
      \cup {Call(k, <<"ok", "ok">>, w) : k \in {"", "key"}, w \in Worlds}

analyze_images_ajax_autoapprove(actor, call) ==
    /\ items' = [pk \in DOMAIN items |->
                    [items[pk] EXCEPT !.approval_status = APPROVED]]
    /\ suggestion' = [via |-> "ajax", call |-> call, raised |-> FALSE,
                      mapping |-> {}, calls |-> 0]
    /\ lastReq' = Req("analyze", "", Null, "ok")
    /\ UNCHANGED <<sessions, staffPage, inflight, now, users, images, claims,
                   students, approvals, nextItemPk, nextClaimPk, nextImagePk,
                   page>>

\* analyze_images_ajax: the authorization check, the short answer when no
\* image_* file is uploaded, otherwise the suggestions of analyze_item_images
\* as the JSON body (a 500 when the call raises)
analyze_images_ajax(actor, call) ==
    IF ~(is_authenticated(actor) /\ users[actor].is_staff)
    THEN Answer(Req("analyze", "", Null, "forbidden"))
    ELSE LET r == IF call.files = <<>>
                  THEN Returned({<<"title", <<>> >>, <<"description", <<>> >>}, 0)
                  ELSE analyze_item_images(call.api_key, call.files, call.world)
         IN /\ suggestion' = [via |-> "ajax", call |-> call,
                              raised |-> r.raised, mapping |-> r.mapping,
                              calls |-> r.calls]
            /\ lastReq' = Req("analyze", "", Null,
                              IF r.raised THEN "server_error" ELSE "ok")
            /\ UNCHANGED <<sessions, staffPage, inflight, now, users, items, images, claims,
                           students, approvals, nextItemPk, nextClaimPk,
                           nextImagePk, page>>

\* analyze_item_images called on its own
analyze_item_images_call(call) ==
    LET r == analyze_item_images(call.api_key, call.files, call.world)
    IN /\ suggestion' = [via |-> "service", call |-> call,
                         raised |-> r.raised, mapping |-> r.mapping,
                         calls |-> r.calls]
       /\ UNCHANGED <<sessions, staffPage, inflight, now, users, items, images, claims, students,
                      approvals, nextItemPk, nextClaimPk, nextImagePk,
                      lastReq, page>>

\* a StudentLostItem row as the model's defaults create it
StudentLostItem_create ==
    /\ Cardinality(DOMAIN students) < MaxStudents
    /\ students' = Extend(students, Cardinality(DOMAIN students) + 1,
                          [approval_status |-> PENDING,
                           approved_by |-> AnonymousUser,
                           approved_at |-> Null,
                           submitted_at |-> now,
                           title |-> <<"K", "e", "y">>,
                           description |-> <<>>])
    /\ UNCHANGED <<sessions, staffPage, inflight, suggestion,
                   now, users, items, images, claims, approvals, nextItemPk,
                   nextClaimPk, nextImagePk, lastReq, page>>

\* the usernames the promote_superuser command is run with
PromoteNames == Users \cup {"ghost"}

\* promote_superuser Command.handle
promote_superuser(username) ==
    IF username \notin Users
    THEN UNCHANGED vars
    ELSE /\ users' = [users EXCEPT ![username] =
                [is_staff |-> TRUE,
                 is_superuser |-> TRUE,
                 has_profile |-> TRUE,
                 profile_is_super_user |->
                     IF @.has_profile THEN @.profile_is_super_user
                     ELSE UserProfile_save(username, FALSE)]]
         /\ UNCHANGED <<sessions, staffPage, inflight, suggestion,
                        now, items, images, claims, students, approvals,
                        nextItemPk, nextClaimPk, nextImagePk, lastReq, page>>

\* the wall clock advances by a day
Advance(limit) ==
    /\ now < limit
    /\ now' = now + 1
    /\ page' = NoPage
    /\ UNCHANGED <<sessions, staffPage, inflight, suggestion,
                   users, items, images, claims, students, approvals,
                   nextItemPk, nextClaimPk, nextImagePk, lastReq>>

Tick == Advance(MaxTime)

----------------------------------------------------------------------------
\* Requests, each drawn from the inputs a specification explores.

Upload(actors, posts) ==
    \E actor \in actors, post \in posts : ItemUploadView_post(actor, post)
UploadConfirm(actors, posts) ==
    \E actor \in actors, post \in posts : ItemUploadConfirmView_post(actor, post)
Claim(names) == \E pk \in ItemPks, name \in names : ClaimItemView_post(pk, name)
Approve(actors, targets) ==
    \E actor \in actors, t \in targets : ApproveItemView_post(actor, t[1], t[2])
Reject(actors, targets) ==
    \E actor \in actors, t \in targets : RejectItemView_post(actor, t[1], t[2])
DashboardPost(actors, bodies) ==
    \E actor \in actors, body \in bodies : AdminDashboardView_post(actor, body)
Analyze(actors, calls) ==
    \E actor \in actors, call \in calls : analyze_images_ajax(actor, call)
AnalyzeService(calls) == \E call \in calls : analyze_item_images_call(call)
Queue(actors) == \E actor \in actors : ApprovalQueueView_get(actor)
DashboardGet(actors) ==
    \E actor \in actors, session \in Sessions :
        AdminDashboardView_get(actor, session)
\* the dismiss button of a notification, pressed in one of the sessions
DismissBody(session, claim) ==
    [json |-> TRUE, action |-> "dismiss_message", item_id |-> Null,
     session |-> session, message_id |-> message_id(claim)]
Dismiss(actors) ==
    \E actor \in actors, session \in Sessions, claim \in claims :
        AdminDashboardView_post(actor, DismissBody(session, claim))
ItemDetail(pks) == \E pk \in pks : ItemDetailView_get(pk)
StudentDetail(pks) == \E pk \in pks : StudentLostItemDetailView_get(pk)
StudentList(qs) == \E q \in qs : StudentLostItemsListView_get(q)
Promote == \E username \in PromoteNames : promote_superuser(username)

\* <str:item_type>/<int:item_id> of the approve and reject URLs
ItemTargets == {"admin"} \X ItemPks
StudentTargets == {"student"} \X (1..(MaxStudents + 1))
BogusTargets == {<<"bogus", 1>>}

\* The life of a found item: staff and Super Users upload, the public claims,
\* Super Users decide, staff delete, days pass.
StaffActors == {"amy", "root"}
DeleteBodies == [json : {TRUE}, action : {"delete_item"}, item_id : ItemPks]

Next ==
    \/ Upload(StaffActors, {PlainPost})
    \/ Claim(ValidNames)
    \/ Approve({"root"}, ItemTargets)
    \/ Reject({"root"}, ItemTargets)
    \/ DashboardPost({"amy"}, DeleteBodies)
    \/ Tick

Spec == Init /\ [][Next]_vars

\* The staff area as the staff and the Super User use it, on found items and
\* on student reports.
StaffBodies == {body \in DashboardBodies : body.action # "dismiss_message"}

NextStaff ==
    \/ Upload(StaffActors, UploadPosts)
    \/ UploadConfirm(StaffActors, UploadPosts)
    \/ Approve(StaffActors, ItemTargets \cup StudentTargets \cup BogusTargets)
    \/ Reject(StaffActors, ItemTargets \cup StudentTargets \cup BogusTargets)
    \/ DashboardPost(StaffActors, StaffBodies)
    \/ StudentLostItem_create

SpecStaff == Init /\ [][NextStaff]_vars

\* The requests behind the login, sent by every kind of visitor.
NextGate ==
    \/ Upload(Actors, {PlainPost})
    \/ Approve(Actors, ItemTargets \cup StudentTargets \cup BogusTargets)
    \/ Reject(Actors, ItemTargets \cup StudentTargets \cup BogusTargets)
    \/ DashboardPost(Actors \ StaffActors, DashboardBodies)
    \/ Analyze(Actors, GateCalls)
    \/ StudentLostItem_create

SpecGate == Init /\ [][NextGate]_vars

\* The vision analysis, through the endpoint and on its own.
NextAnalyze ==
    \/ Analyze({"amy"}, AnalyzeCalls)
    \/ AnalyzeService(AnalyzeCalls)

SpecAnalyze == Init /\ [][NextAnalyze]_vars

\* The requests whose outcome depends on the Super User role, with accounts
\* being promoted between them.
NextRoles ==
    \/ Promote
    \/ Upload(Users, {PlainPost})
    \/ UploadConfirm(Users, {PlainPost})
    \/ Approve(Users, ItemTargets)
    \/ Reject(Users, ItemTargets)

SpecRoles == Init /\ [][NextRoles]_vars

\* The rows a listing is computed over: one Item in each combination of
\* columns that uploads, the admin site, claims and decisions produce.
BrowseTexts ==
    {[title |-> <<"B", "a", "g">>, description |-> <<>>,
      location_found |-> <<"G", "y", "m">>],
     [title |-> <<"C", "a", "p">>, description |-> <<"b", "a", "t">>,
      location_found |-> <<>>]}

BrowseClaimStates ==
    {[status |-> FOUND, claimed_by_name |-> <<>>, claimed_at |-> Null],
     [status |-> CLAIMED, claimed_by_name |-> <<>>, claimed_at |-> Null],
     [status |-> CLAIMED, claimed_by_name |-> <<"A", "n", "n">>, claimed_at |-> 1]}

BrowseItems ==
    {[title |-> t.title, description |-> t.description,
      location_found |-> t.location_found, date_found |-> d,
      status |-> c.status, category |-> cat, approval_status |-> a,
      item_type |-> ty, created_by |-> "amy",
      claimed_by_name |-> c.claimed_by_name, claimed_at |-> c.claimed_at,
      created_at |-> 0] :
        t \in BrowseTexts, d \in {1, 2}, c \in BrowseClaimStates,
        cat \in Category, a \in ApprovalStatus, ty \in ItemType}

InitBrowse ==
    /\ now = 1
    /\ users = [u \in Users |->
                  [is_staff |-> u \in {"amy", "root"},
                   is_superuser |-> u = "root",
                   has_profile |-> FALSE,
                   profile_is_super_user |-> FALSE]]
    /\ \E item \in BrowseItems : items = Extend(NoRows, 1, item)
    /\ images = {}
    /\ claims = {}
    /\ students = NoRows
    /\ approvals = {}
    /\ nextItemPk = 2
    /\ nextClaimPk = 1
    /\ nextImagePk = 1
    /\ lastReq = NoReq
    /\ page = NoPage
    /\ inflight = NoRows
    /\ suggestion = NoSuggestion
    /\ sessions = NoSessions
    /\ staffPage = NoStaffPage

\* ListView.get of a listing URL: the page holds the rows of get_queryset
Browse ==
    \E view \in ItemType, params \in FilterParams :
        /\ page' = [view |-> view, params |-> params,
                    object_list |-> Listing(view, items, now, params)]
        /\ UNCHANGED <<sessions, staffPage, inflight, suggestion,
                       now, users, items, images, claims, students, approvals,
                       nextItemPk, nextClaimPk, nextImagePk, lastReq>>

BrowseTick == Advance(MaxBrowseTime)

NextBrowse ==
    \/ Browse
    \/ BrowseTick

SpecBrowse == InitBrowse /\ [][NextBrowse]_vars

\* The claim form and the requests on items that are not there: two items on
\* the shelf (each uploaded by the staff account and still PENDING, or
\* uploaded by the Super User and already marked CLAIMED), one student report.
ShelfItems ==
    {[ItemForm_save(PlainPost) EXCEPT !.created_by = "amy",
                                      !.approval_status = PENDING,
                                      !.created_at = 0],
     [ItemForm_save(ForgedPost) EXCEPT !.created_by = "root",
                                       !.approval_status = APPROVED,
                                       !.created_at = 0]}

\* the keys requests name: the two items and one key never issued
ShelfPks == {1, 2, 3}
\* the names the form is submitted with; the last is 256 characters long and
\* 255 once stripped
ShelfNames == {<<" ", "B", "o">>, <<>>, <<" ">>, Filler(256), <<" ">> \o Filler(255)}
ShelfTargets == {"admin", "student", "bogus"} \X ShelfPks
ShelfBodies == [json : {TRUE}, action : {"delete_item"}, item_id : ShelfPks]

InitClaims ==
    /\ now = 0
    /\ users = [u \in Users |->
                  [is_staff |-> u \in {"amy", "root"},
                   is_superuser |-> u = "root",
                   has_profile |-> FALSE,
                   profile_is_super_user |-> FALSE]]
    /\ \E first \in ShelfItems : \E second \in ShelfItems \ {first} :
          /\ first.status = FOUND
          /\ items = Extend(Extend(NoRows, 1, first), 2, second)
    /\ images = {}
    /\ claims = {}
    /\ students = Extend(NoRows, 1, [approval_status |-> PENDING,
                                      approved_by |-> AnonymousUser,
                                      approved_at |-> Null,
                                      submitted_at |-> 0,
                                      title |-> <<"K", "e", "y">>,
                                      description |-> <<>>])
    /\ approvals = {}
    /\ nextItemPk = 3
    /\ nextClaimPk = 1
    /\ nextImagePk = 1
    /\ lastReq = NoReq
    /\ page = NoPage
    /\ inflight = NoRows
    /\ suggestion = NoSuggestion
    /\ sessions = NoSessions
    /\ staffPage = NoStaffPage

ClaimAt(pks, names) ==
    \E pk \in pks, name \in names : ClaimItemView_post(pk, name)

NextClaims ==
    \/ ClaimAt(ShelfPks, ShelfNames)
    \/ Approve({"root"}, ShelfTargets)
    \/ Reject({"root"}, ShelfTargets)
    \/ DashboardPost({"amy"}, ShelfBodies)

SpecClaims == InitClaims /\ [][NextClaims]_vars

\* The store with rows in every table: two Items with an image each and one
\* student report.  The second Item is as an upload, a decision or the admin
\* site leave it: any approval status, either item type.
OpsItems ==
    {[ItemForm_save(ForgedPost) EXCEPT !.created_by = "root",
                                       !.created_at = 0],
     [ItemForm_save(PlainPost) EXCEPT !.created_by = "amy",
                                      !.approval_status = PENDING,
                                      !.item_type = PY,
                                      !.created_at = 0],
     [ItemForm_save(PlainPost) EXCEPT !.created_by = "amy",
                                      !.approval_status = REJECTED,
                                      !.item_type = PY,
                                      !.created_at = 0]}

InitOps ==
    /\ now = 0
    /\ users = [u \in Users |->
                  [is_staff |-> u \in {"amy", "root"},
                   is_superuser |-> u = "root",
                   has_profile |-> FALSE,
                   profile_is_super_user |-> FALSE]]
    /\ \E second \in OpsItems :
          items = Extend(Extend(NoRows, 1,
                     [ItemForm_save(PlainPost) EXCEPT
                         !.created_by = "amy", !.approval_status = PENDING,
                         !.created_at = 0]), 2, second)
    /\ images = {[pk |-> 1, item |-> 1], [pk |-> 2, item |-> 2]}
    /\ claims = {}
    /\ students = Extend(NoRows, 1, [approval_status |-> PENDING,
                                      approved_by |-> AnonymousUser,
                                      approved_at |-> Null,
                                      submitted_at |-> 0,
                                      title |-> <<"K", "e", "y">>,
                                      description |-> <<>>])
    /\ approvals = {}
    /\ nextItemPk = 3
    /\ nextClaimPk = 1
    /\ nextImagePk = 3
    /\ lastReq = NoReq
    /\ page = NoPage
    /\ inflight = NoRows
    /\ suggestion = NoSuggestion
    /\ sessions = NoSessions
    /\ staffPage = NoStaffPage

OpsPks == {1, 2}
OpsNames == {<<" ", "B", "o">>}

\* The analysis run next to a store that holds rows: one call for each way
\* the external request can end.
AdviseWorlds ==
    {World("timeout", 200, "json", JNotObject("null")),
     World("response", 404, "json", JNotObject("null")),
     World("response", 500, "json", JNotObject("null")),
     World("response", 200, "not_json", JNotObject("null")),
     World("response", 200, "json", JNotObject("list")),
     World("response", 200, "json",
           JObject(JValue("number", <<>>), JStr(<<"r", "e", "d">>), JNull)),
     World("response", 200, "json",
           JObject(JStr(<<" ", "C", "a", "p", " ">>), JStr(<<>>),
                   JStr(<<"l", "a", "p", "t", "o", "p">>)))}

AdviseCalls ==
    {NoCall, Call("key", <<"unreadable">>, NoCall.world)}
      \cup {Call("key", <<"ok">>, w) : w \in AdviseWorlds}

AdviseActors == {"amy", "advait"}

NextAdvise ==
    \/ Analyze(AdviseActors, AdviseCalls)
    \/ AnalyzeService(AdviseCalls)
    \/ ClaimAt(OpsPks, OpsNames)

SpecAdvise == InitOps /\ [][NextAdvise]_vars

\* The approval queue over two staff uploads and a student report that came
\* in yesterday or today, in any combination; the Super User opens the queue
\* and decides.
QueueDays == {0, 1}

InitQueue ==
    /\ now = 1
    /\ users = [u \in Users |->
                  [is_staff |-> u \in {"amy", "root"},
                   is_superuser |-> u = "root",
                   has_profile |-> FALSE,
                   profile_is_super_user |-> FALSE]]
    /\ \E first \in QueueDays, second \in QueueDays :
          items = Extend(Extend(NoRows, 1,
                     [ItemForm_save(PlainPost) EXCEPT
                         !.created_by = "amy", !.approval_status = PENDING,
                         !.created_at = first]), 2,
                     [ItemForm_save(PlainPost) EXCEPT
                         !.created_by = "amy", !.approval_status = PENDING,
                         !.created_at = second])
    /\ images = {}
    /\ claims = {}
    /\ \E day \in QueueDays :
          students = Extend(NoRows, 1, [approval_status |-> PENDING,
                                        approved_by |-> AnonymousUser,
                                        approved_at |-> Null,
                                        submitted_at |-> day,
                                        title |-> <<"K", "e", "y">>,
                                        description |-> <<>>])
    /\ approvals = {}
    /\ nextItemPk = 3
    /\ nextClaimPk = 1
    /\ nextImagePk = 1
    /\ lastReq = NoReq
    /\ page = NoPage
    /\ inflight = NoRows
    /\ suggestion = NoSuggestion
    /\ sessions = NoSessions
    /\ staffPage = NoStaffPage

QueueTargets == {<<"admin", 1>>, <<"admin", 2>>, <<"student", 1>>}

NextQueue ==
    \/ Approve({"root"}, QueueTargets)
    \/ Reject({"root"}, QueueTargets)
    \/ Queue(StaffActors)

SpecQueue == InitQueue /\ [][NextQueue]_vars

\* more than the seven days a claim stays among the notifications go by
WeekPasses ==
    /\ now + 8 <= MaxBrowseTime
    /\ now' = now + 8
    /\ page' = NoPage
    /\ UNCHANGED <<sessions, staffPage, inflight, suggestion, users, items,
                   images, claims, students, approvals, nextItemPk,
                   nextClaimPk, nextImagePk, lastReq>>

\* The dashboard's claim notifications, read and dismissed in two sessions.
InitBoard == InitOps /\ items[2].item_type = SENIOR

NextBoard ==
    \/ ClaimAt({1}, OpsNames)
    \/ DashboardGet({"amy"})
    \/ Dismiss({"amy"})
    \/ WeekPasses

SpecBoard == InitBoard /\ [][NextBoard]_vars

\* The web operations on items that are in the store, one request after the
\* other: claims, decisions of the Super User, deletions by the staff.
OpsTargets == {"admin"} \X OpsPks
OpsBodies == [json : {TRUE}, action : {"delete_item"}, item_id : OpsPks]

NextOps ==
    \/ ClaimAt(OpsPks, OpsNames)
    \/ Approve({"root"}, OpsTargets)
    \/ Reject({"root"}, OpsTargets)
    \/ DashboardPost({"amy"}, OpsBodies)

SpecOps == InitOps /\ [][NextOps]_vars

\* The public pages of single records, opened by key while uploads and
\* student reports are waiting for, and getting, their decision.
StudentPks == 1..(MaxStudents + 1)
StudentQueries == {<<>>, <<"k", "E">>, <<"z">>}

NextPublic ==
    \/ Upload(StaffActors, {PlainPost})
    \/ StudentLostItem_create
    \/ Approve({"root"}, ItemTargets \cup StudentTargets)
    \/ Reject({"root"}, ItemTargets \cup StudentTargets)
    \/ ItemDetail(ItemPks)
    \/ StudentDetail(StudentPks)
    \/ StudentList(StudentQueries)

SpecPublic == Init /\ [][NextPublic]_vars

----------------------------------------------------------------------------
\* Requests handled at the same time.  No handler opens a transaction or
\* locks a row (no transaction.atomic, no select_for_update, ATOMIC_REQUESTS
\* unset), so the queries of two requests interleave: a handler loads its
\* own copy of the row, changes the copy, and Model.save() writes every
\* column of the copy back.  inflight[r] is request r: its handler (op), its
\* URL arguments, its copy of the row, its position (pc) and, once it is
\* "done", its outcome; stamped tells a claim that wrote the legacy fields.

InFlight(op, actor, kind, pk, row, name, pc, outcome, stamped) ==
    [op |-> op, actor |-> actor, kind |-> kind, pk |-> pk, row |-> row,
     name |-> name, pc |-> pc, outcome |-> outcome, stamped |-> stamped]

\* an Item instance that was never loaded
NoRow == ItemForm_save(PlainPost)

\* the rest of the state a step of a request leaves alone
RequestFrame ==
    UNCHANGED <<now, users, images, nextItemPk, nextImagePk, page, suggestion,
                sessions, staffPage>>

\* ClaimItemView.post, lines 269-273: get_object_or_404 and the form
ClaimItemView_get(pk, name) ==
    LET r == Cardinality(DOMAIN inflight) + 1
        begun(row, pc, outcome) ==
            inflight' = Extend(inflight, r,
                InFlight("claim", AnonymousUser, "", pk, row, strip(name), pc,
                         outcome, FALSE))
    IN /\ r <= MaxRequests
       /\ IF pk \notin DOMAIN items
          THEN begun(NoRow, "done", "not_found")
               /\ lastReq' = Req("claim", "", pk, "not_found")
          ELSE IF ~ClaimItemForm_is_valid(name)
          THEN begun(items[pk], "done", "form_errors")
               /\ lastReq' = Req("claim", "", pk, "form_errors")
          ELSE begun(items[pk], "create", "") /\ UNCHANGED lastReq
       /\ UNCHANGED <<items, students, claims, approvals, nextClaimPk>>
       /\ RequestFrame

\* ClaimItemView.post, lines 276-282: Claim.objects.create, then the test of
\* the status the request's own copy holds
ClaimItemView_create(r) ==
    LET q == inflight[r] IN
    /\ q.pc = "create"
    /\ nextClaimPk <= MaxClaims
    /\ claims' = claims \cup {[pk |-> nextClaimPk, item |-> q.pk,
                               claimant_name |-> q.name, claimed_at |-> now]}
    /\ nextClaimPk' = nextClaimPk + 1
    /\ IF ClaimItemView_is_first(q.row)
       THEN inflight' = [inflight EXCEPT ![r].pc = "save"] /\ UNCHANGED lastReq
       ELSE /\ inflight' = [inflight EXCEPT ![r].pc = "done",
                                            ![r].outcome = "redirect"]
            /\ lastReq' = Req("claim", "", q.pk, "redirect")
    /\ UNCHANGED <<items, students, approvals>>
    /\ RequestFrame

\* ClaimItemView.post, lines 283-287: the legacy fields are set on the copy
\* and item.save() writes the whole copy
ClaimItemView_save(r) ==
    LET q == inflight[r]
        row == ClaimItemView_stamp(q.row, q.name, now)
    IN /\ q.pc = "save"
       /\ q.op = "claim"
       /\ items' = [items EXCEPT ![q.pk] = row]
       /\ inflight' = [inflight EXCEPT ![r].row = row, ![r].pc = "done",
                                       ![r].outcome = "redirect",
                                       ![r].stamped = TRUE]
       /\ lastReq' = Req("claim", "", q.pk, "redirect")
       /\ UNCHANGED <<students, claims, approvals, nextClaimPk>>
       /\ RequestFrame

\* ApproveItemView.post / RejectItemView.post up to get_object_or_404: the
\* copy of the PENDING row, or the 404
Decide_get(op, actor, kind, pk) ==
    LET r == Cardinality(DOMAIN inflight) + 1
        d == Dispatch(actor, SuperUserRequired(actor))
        ended(outcome) ==
            /\ inflight' = Extend(inflight, r,
                   InFlight(op, actor, kind, pk, NoRow, <<>>, "done", outcome,
                            FALSE))
            /\ lastReq' = Req(op, IF d = "pass" THEN kind ELSE "",
                              IF d = "pass" /\ kind \in {"admin", "student"}
                              THEN pk ELSE Null,
                              outcome)
    IN /\ r <= MaxRequests
       /\ IF d # "pass" THEN ended(d)
          ELSE IF kind = "admin"
          THEN IF ~get_pending_or_404(items, pk) THEN ended("not_found")
               ELSE /\ inflight' = Extend(inflight, r,
                          InFlight(op, actor, kind, pk, items[pk], <<>>,
                                   "save", "", FALSE))
                    /\ UNCHANGED lastReq
          ELSE IF kind = "student"
          THEN IF ~get_pending_or_404(students, pk) THEN ended("not_found")
               ELSE /\ inflight' = Extend(inflight, r,
                          InFlight(op, actor, kind, pk, students[pk], <<>>,
                                   "save", "", FALSE))
                    /\ UNCHANGED lastReq
          ELSE ended("invalid_type")
       /\ UNCHANGED <<items, students, claims, approvals, nextClaimPk>>
       /\ RequestFrame

\* ApproveItemView.post / RejectItemView.post, the assignment of
\* approval_status on the copy and item.save()
Decide_save(r) ==
    LET q == inflight[r]
        verdict == IF q.op = "approve" THEN APPROVED ELSE REJECTED
        row == IF q.kind = "admin"
               THEN [q.row EXCEPT !.approval_status = verdict]
               ELSE [q.row EXCEPT !.approval_status = verdict,
                                  !.approved_by = q.actor,
                                  !.approved_at = now]
    IN /\ q.pc = "save"
       /\ q.op \in {"approve", "reject"}
       /\ IF q.kind = "admin"
          THEN /\ items' = [items EXCEPT ![q.pk] = row]
               /\ approvals' = IF verdict = APPROVED
                               THEN approvals \cup {q.pk} ELSE approvals
               /\ UNCHANGED students
          ELSE /\ students' = [students EXCEPT ![q.pk] = row]
               /\ UNCHANGED <<items, approvals>>
       /\ inflight' = [inflight EXCEPT ![r].row = row, ![r].pc = "done",
                                       ![r].outcome = "redirect"]
       /\ lastReq' = Req(q.op, q.kind, q.pk, "redirect")
       /\ UNCHANGED <<claims, nextClaimPk>>
       /\ RequestFrame

ClaimGet(names) ==
    \E pk \in ItemPks, name \in names : ClaimItemView_get(pk, name)
ClaimCreate == \E r \in DOMAIN inflight : ClaimItemView_create(r)
ClaimSave == \E r \in DOMAIN inflight : ClaimItemView_save(r)
DecideGet(actors, targets) ==
    \E op \in {"approve", "reject"}, actor \in actors, t \in targets :
        Decide_get(op, actor, t[1], t[2])
DecideSave == \E r \in DOMAIN inflight : Decide_save(r)

\* Claims and decisions on found items, their queries interleaved.
NextRace ==
    \/ Upload({"amy"}, {PlainPost})
    \/ ClaimGet(ValidNames)
    \/ ClaimCreate
    \/ ClaimSave
    \/ DecideGet({"root"}, ItemTargets)
    \/ DecideSave

SpecRace == Init /\ [][NextRace]_vars

----------------------------------------------------------------------------
\* Properties.

\* category_claim_window of the design: the days a claimed item stays listed
category_claim_window(category) ==
    CASE category = ELECTRONICS -> 7
      [] category = SPORTS_AND_CLOTHING -> 3
      [] OTHER -> 1

\* the item is on the unfiltered listing of its own segment at time t
Listed(db, pk, t) == pk \in Listing(db[pk].item_type, db, t, NoFilter)

\* the item is on some listing at time t
PubliclyListed(db, pk, t) ==
    \E view \in ItemType : pk \in Listing(view, db, t, NoFilter)

\* C1 as stated: an unfiltered page of a segment holds exactly the approved
\* items of that segment that are FOUND, or CLAIMED with a claim time less
\* than the category's window ago.
C1_Original ==
    (page.view # "none" /\ page.params = NoFilter) =>
        \A pk \in DOMAIN items :
            pk \in page.object_list <=>
                /\ items[pk].approval_status = APPROVED
                /\ items[pk].item_type = page.view
                /\ \/ items[pk].status = FOUND
                   \/ /\ items[pk].status = CLAIMED
                      /\ items[pk].claimed_at # Null
                      /\ now - items[pk].claimed_at <
                             category_claim_window(items[pk].category)

\* C1 amended: an unfiltered page of a segment holds exactly the approved
\* items of that segment that are FOUND, or CLAIMED with a claim time at most
\* the category's window ago (the instant now - claimed_at = window included).
C1_PageExactlyVisible ==
    (page.view # "none" /\ page.params = NoFilter) =>
        \A pk \in DOMAIN items :
            pk \in page.object_list <=>
                /\ items[pk].approval_status = APPROVED
                /\ items[pk].item_type = page.view
                /\ \/ items[pk].status = FOUND
                   \/ /\ items[pk].status = CLAIMED
                      /\ items[pk].claimed_at # Null
                      /\ now - items[pk].claimed_at <=
                             category_claim_window(items[pk].category)

\* a Senior page that lists an Electronics item claimed exactly 7 days ago
C1_Witness ==
    /\ page.view = SENIOR /\ page.params = NoFilter
    /\ 1 \in page.object_list
    /\ items[1].category = ELECTRONICS
    /\ items[1].status = CLAIMED
    /\ now - items[1].claimed_at = 7

\* C2: no listing, under any of the filter parameters, holds an item whose
\* approval status is PENDING or REJECTED.
C2_OnlyApprovedListed ==
    \A view \in ItemType, params \in FilterParams :
        \A pk \in Listing(view, items, now, params) :
            items[pk].approval_status \notin {PENDING, REJECTED}

\* a Primary Years page, just served, that leaves out a FOUND item of that
\* segment because it is REJECTED
C2_Witness ==
    /\ page.view = PY /\ page.params = NoFilter
    /\ page.object_list = {}
    /\ items[1].item_type = PY
    /\ items[1].status = FOUND
    /\ items[1].approval_status = REJECTED

\* an approved item that carries a claim time
ClaimedApproved(pk) ==
    /\ items[pk].approval_status = APPROVED
    /\ items[pk].status = CLAIMED
    /\ items[pk].claimed_at # Null

\* C3 as stated: an approved claimed item is listed at the instants less than
\* the window after claimed_at and at no instant from the window on.
C3_Original ==
    \A pk \in DOMAIN items :
        ClaimedApproved(pk) =>
            (Listed(items, pk, now) <=>
                now - items[pk].claimed_at < category_claim_window(items[pk].category))

\* C3 amended: as the clock advances, an approved claimed item is listed at
\* every instant up to and including window days after claimed_at, at no
\* later instant, and once off the listing it stays off; the window is 7 days
\* for Electronics, 3 for Sports and clothing, 1 otherwise, in both listings.
C3_ListedThroughWindow ==
    [][\A pk \in DOMAIN items :
          ClaimedApproved(pk) =>
            /\ Listed(items', pk, now') <=>
                  now' - items[pk].claimed_at <=
                      category_claim_window(items[pk].category)
            /\ ~Listed(items, pk, now) => ~Listed(items', pk, now')]_vars

\* a Primary Years Electronics item, claimed, off the listing on the 8th day
C3_Witness ==
    /\ ClaimedApproved(1)
    /\ items[1].item_type = PY
    /\ items[1].category = ELECTRONICS
    /\ now - items[1].claimed_at = 8
    /\ ~Listed(items, 1, now)

\* C4 as stated: a claim on a FOUND item without claims leaves it CLAIMED with
\* one Claim, claimed_by_name the Claim's name and claimed_at the very
\* timestamp of the Claim.
C4_FirstClaimStampsClaimValues ==
    [][\A c \in claims' \ claims :
          (items[c.item].status = FOUND /\ claim_count(claims, c.item) = 0) =>
            /\ items'[c.item].status = CLAIMED
            /\ claim_count(claims', c.item) = 1
            /\ items'[c.item].claimed_by_name = c.claimant_name
            /\ items'[c.item].claimed_at = c.claimed_at]_vars

\* C5: a claim on an item that already has a Claim adds one Claim, leaves the
\* item CLAIMED and leaves claimed_by_name and claimed_at as they were.
C5_LaterClaimsKeepFirstStamp ==
    [][\A c \in claims' \ claims :
          claim_count(claims, c.item) >= 1 =>
            /\ claim_count(claims', c.item) = claim_count(claims, c.item) + 1
            /\ items'[c.item].status = CLAIMED
            /\ items'[c.item].claimed_by_name = items[c.item].claimed_by_name
            /\ items'[c.item].claimed_at = items[c.item].claimed_at]_vars

\* an item with two Claims whose second claimant, on a later day, is not the
\* name on the item
C5_Witness ==
    \E pk \in DOMAIN items :
        /\ claim_count(claims, pk) = 2
        /\ lastReq = Req("claim", "", pk, "redirect")
        /\ \E c \in claims :
              /\ c.item = pk
              /\ c.claimant_name # items[pk].claimed_by_name
              /\ c.claimed_at > items[pk].claimed_at

\* the row an approve/reject URL names, or <<>> when there is none
Row(db, st, target) ==
    IF target[1] = "admin"
    THEN IF target[2] \in DOMAIN db THEN <<db[target[2]]>> ELSE <<>>
    ELSE IF target[2] \in DOMAIN st THEN <<st[target[2]]>> ELSE <<>>

\* C6: a Super User's approve of a PENDING Item or StudentLostItem makes it
\* APPROVED; an approve or reject of a row that is not PENDING (so any one
\* after the approval) is answered not-found and changes no row.
C6_ApproveOnceThenNotFound ==
    [][lastReq'.op \in {"approve", "reject"} =>
        \A actor \in StaffActors, t \in ItemTargets \cup StudentTargets :
          LET row == Row(items, students, t)
              approve == ApproveItemView_post(actor, t[1], t[2])
              reject == RejectItemView_post(actor, t[1], t[2])
          IN  (is_super_user(actor) /\ (approve \/ reject)) =>
                IF row # <<>> /\ row[1].approval_status = PENDING
                THEN approve =>
                       Row(items', students', t)[1].approval_status = APPROVED
                ELSE /\ lastReq'.status = "not_found"
                     /\ UNCHANGED records]_vars

\* a reject, answered not-found, of an Item that an approve made APPROVED
C6_Witness ==
    \E pk \in DOMAIN items :
        /\ lastReq = Req("reject", "admin", pk, "not_found")
        /\ pk \in approvals
        /\ items[pk].approval_status = APPROVED

\* C7: an upload through ItemUploadView.post stores the item APPROVED when
\* the uploader is a Super User and PENDING otherwise, whatever the POST says.
C7_UploadApprovalByRole ==
    [][nextItemPk' # nextItemPk =>
        \A actor \in StaffActors, post \in UploadPosts :
          ItemUploadView_post(actor, post) =>
            items'[nextItemPk].approval_status =
                IF is_super_user(actor) THEN APPROVED ELSE PENDING]_vars

\* an item just uploaded by the staff account with approval_status=APPROVED in
\* the POST (the forged POST is the one that marks the item CLAIMED)
C7_Witness ==
    \E pk \in DOMAIN items :
        /\ lastReq = Req("upload", "", pk, "redirect")
        /\ items[pk].created_by = "amy"
        /\ items[pk].status = CLAIMED
        /\ items[pk].approval_status = PENDING
        /\ ForgedPost.approval_status = APPROVED

\* C8 as stated: an item created by a staff account that is not a Super User
\* is on no public listing before ApproveItemView.post has approved it.
C8_StaffItemsHiddenUntilApproved ==
    \A pk \in DOMAIN items :
        (is_admin(items[pk].created_by) /\ pk \notin approvals) =>
            ~PubliclyListed(items, pk, now)

\* the answers of a request turned away at dispatch
Refusals == {"login_redirect", "forbidden"}

\* C9: a request without the required role changes no Item, ItemImage, Claim
\* or StudentLostItem and is answered by a login redirect or a 403: approve
\* and reject need a Super User; upload, the dashboard POST and image analysis
\* need an authenticated staff account.
C9_UnauthorizedChangesNothing ==
    [][\A actor \in Actors :
          /\ (/\ ~is_super_user(actor)
              /\ \E t \in ItemTargets \cup StudentTargets \cup BogusTargets :
                    \/ ApproveItemView_post(actor, t[1], t[2])
                    \/ RejectItemView_post(actor, t[1], t[2]))
                => (UNCHANGED records /\ lastReq'.status \in Refusals)
          /\ (/\ ~(is_authenticated(actor) /\ users[actor].is_staff)
              /\ \/ \E post \in UploadPosts : ItemUploadView_post(actor, post)
                 \/ \E body \in DashboardBodies :
                       AdminDashboardView_post(actor, body)
                 \/ \E call \in GateCalls : analyze_images_ajax(actor, call))
                => (UNCHANGED records /\ lastReq'.status \in Refusals)]_vars

\* an approve that was refused while a PENDING item and a PENDING student
\* report were waiting
C9_Witness ==
    /\ lastReq = Req("approve", "", Null, "forbidden")
    /\ \E pk \in DOMAIN items : items[pk].approval_status = PENDING
    /\ \E pk \in DOMAIN students : students[pk].approval_status = PENDING

\* C10 as stated: an upload is auto-approved exactly when the uploader's
\* UserProfile.is_super_user flag is set.
C10_SuperUserIffProfileFlag ==
    \A pk \in DOMAIN items :
        lastReq = Req("upload", "", pk, "redirect") =>
            (items[pk].approval_status = APPROVED <=>
                (users[items[pk].created_by].has_profile
                 /\ users[items[pk].created_by].profile_is_super_user))

\* C11 as stated: whatever the interleaving of claims and decisions, no step
\* takes an item's status from CLAIMED back to FOUND.
C11_StatusNeverBackToFound ==
    [][\A pk \in DOMAIN items \cap DOMAIN items' :
          items[pk].status = CLAIMED => items'[pk].status = CLAIMED]_vars

\* C12 as stated: whatever the interleaving of claims and decisions, an
\* approval_status of APPROVED or REJECTED is never replaced by another value.
C12_DecisionIsFinal ==
    [][\A pk \in DOMAIN items \cap DOMAIN items' :
          items[pk].approval_status \in {APPROVED, REJECTED} =>
              items'[pk].approval_status = items[pk].approval_status]_vars

\* C13 as stated: of the claims on one item that run at the same time, one
\* only makes the FOUND to CLAIMED transition and writes the legacy fields.
C13_OneClaimStamps ==
    \A pk \in DOMAIN items :
        Cardinality({r \in DOMAIN inflight :
                        /\ inflight[r].op = "claim"
                        /\ inflight[r].pk = pk
                        /\ inflight[r].stamped}) <= 1

\* C14 as stated: of the decisions on one PENDING item that run at the same
\* time, at most one is answered with success.
C14_OneDecisionSucceeds ==
    \A pk \in DOMAIN items :
        Cardinality({r \in DOMAIN inflight :
                        /\ inflight[r].op \in {"approve", "reject"}
                        /\ inflight[r].kind = "admin"
                        /\ inflight[r].pk = pk
                        /\ inflight[r].outcome = "redirect"}) <= 1

\* C15: a claim with a valid name on an existing item adds exactly one Claim,
\* linked to that item, whatever the item's status and claims; the item's
\* claim_count grows by one and no other item's claims change.
C15_ValidClaimAddsOneClaim ==
    [][lastReq'.op = "claim" =>
        \A pk \in DOMAIN items, name \in ShelfNames :
          (ClaimItemView_post(pk, name) /\ ClaimItemForm_is_valid(name)) =>
            /\ \E c \in claims' \ claims :
                  /\ claims' = claims \cup {c}
                  /\ c.item = pk
                  /\ c.claimant_name = strip(name)
            /\ claim_count(claims', pk) = claim_count(claims, pk) + 1
            /\ \A other \in DOMAIN items \ {pk} :
                  claim_count(claims', other) = claim_count(claims, other)]_vars

\* a second claim on an item that was uploaded as CLAIMED, while the other
\* item has none
C15_Witness ==
    \E pk \in DOMAIN items :
        /\ lastReq = Req("claim", "", pk, "redirect")
        /\ items[pk].status = CLAIMED
        /\ items[pk].claimed_at = Null
        /\ claim_count(claims, pk) = 2
        /\ \E other \in DOMAIN items \ {pk} : claim_count(claims, other) = 0

\* the claim changed nothing but the messages
ClaimRejected(pk) ==
    /\ claims' = claims
    /\ items' = items
    /\ lastReq' = Req("claim", "", pk, "form_errors")

\* C16 as stated: a name that is empty, whitespace only or longer than 255
\* characters creates no Claim and leaves the item as it was.
C16_Original ==
    [][lastReq'.op = "claim" =>
        \A pk \in DOMAIN items, name \in ShelfNames :
          (/\ ClaimItemView_post(pk, name)
           /\ \/ \A i \in 1..Len(name) : name[i] = " "
              \/ Len(name) > 255) => ClaimRejected(pk)]_vars

\* C16: a name that is empty, whitespace only, or longer than 255
\* characters once the surrounding whitespace is stripped creates no Claim
\* and leaves the item's status, claimed_by_name and claimed_at as they were.
C16_InvalidNameChangesNothing ==
    [][lastReq'.op = "claim" =>
        \A pk \in DOMAIN items, name \in ShelfNames :
          (/\ ClaimItemView_post(pk, name)
           /\ \/ \A i \in 1..Len(name) : name[i] = " "
              \/ Len(strip(name)) > 255) => ClaimRejected(pk)]_vars

\* a claim answered with form errors on an item nobody has claimed
C16_Witness ==
    \E pk \in DOMAIN items :
        /\ lastReq = Req("claim", "", pk, "form_errors")
        /\ items[pk].status = FOUND
        /\ claim_count(claims, pk) = 0

\* C17: a claim or dashboard delete of an item key that names no item, and an
\* approve or reject of a key that names no row or of an item_type that is
\* neither admin nor student, end in an error and change no record.
C17_NotFoundChangesNothing ==
    [][/\ lastReq'.op = "claim" =>
            \A pk \in ShelfPks \ DOMAIN items :
              (\E name \in ShelfNames : ClaimItemView_post(pk, name))
                => (lastReq'.status = "not_found" /\ UNCHANGED records)
       /\ lastReq'.op = "dashboard_post" =>
            \A body \in ShelfBodies :
              (body.item_id \notin DOMAIN items
                 /\ AdminDashboardView_post("amy", body))
                => (lastReq'.status = "not_found" /\ UNCHANGED records)
       /\ lastReq'.op \in {"approve", "reject"} =>
            \A t \in ShelfTargets :
              (/\ Row(items, students, t) = <<>> \/ t[1] = "bogus"
               /\ \/ ApproveItemView_post("root", t[1], t[2])
                  \/ RejectItemView_post("root", t[1], t[2]))
                => (/\ lastReq'.status \in {"not_found", "invalid_type"}
                    /\ UNCHANGED records)]_vars

\* a claim on a deleted item, answered not-found, while the other item keeps
\* its Claims
C17_Witness ==
    \E pk \in ShelfPks \ DOMAIN items :
        /\ lastReq = Req("claim", "", pk, "not_found")
        /\ pk < nextItemPk
        /\ claims # {}

\* the suggestion the design asks for when there is nothing to suggest
EmptySuggestion ==
    {<<"title", <<>> >>, <<"description", <<>> >>, <<"category", <<>> >>}

\* C18 as stated: analyze_item_images returns a mapping, and never raises,
\* whatever the network answers.
C18_AnalysisNeverRaises ==
    suggestion.via = "service" => ~suggestion.raised

\* the analysis was run without images, without the credential, or the
\* external call failed (no response, or a status other than 200)
NothingToSuggest(call) ==
    \/ call.files = <<>>
    \/ call.api_key = ""
    \/ call.world.post # "response"
    \/ call.world.status # 200

\* C19 as stated: without images, without the credential or after a failed
\* external call, analyze_item_images and the AJAX endpoint answer with the
\* keys title, description and category, all empty, and no HTTP request
\* follows the failed one.
C19_EmptySuggestionHasThreeKeys ==
    (suggestion.via # "none" /\ NothingToSuggest(suggestion.call)) =>
        /\ ~suggestion.raised
        /\ suggestion.mapping = EmptySuggestion
        /\ suggestion.calls <= 1

\* Item.Category, in the order of the prompt's labels
LabelCategory ==
    <<ELECTRONICS, BAGS_AND_CARRY, SPORTS_AND_CLOTHING, BOTTLES_AND_CONTAINERS,
      DOCUMENTS_AND_IDS, NOTEBOOKS_AND_BOOKS, OTHER_MISC>>

\* the text contains one of the keywords, ignoring case
Mentions(text, kws) == \E kw \in kws : icontains(text, kw)

\* C20: the category of a returned suggestion is one of the seven
\* Item.Category values; it is ELECTRONICS when the free text mentions an
\* Electronics keyword, BAGS_AND_CARRY when it mentions a bag keyword and no
\* Electronics keyword, OTHER_MISC when it mentions no keyword at all (the
\* empty text included), and each label of the prompt gives its own value.
C20_CategoryNormalized ==
    LET raw == field_text(suggestion.call.world.parsed.category) IN
    (~suggestion.raised /\ "category" \in Keys(suggestion.mapping)) =>
        \E c \in Category :
            /\ {kv \in suggestion.mapping : kv[1] = "category"}
                  = {<<"category", c>>}
            /\ Mentions(raw, ElectronicsKeywords) => c = ELECTRONICS
            /\ (Mentions(raw, BagKeywords)
                  /\ ~Mentions(raw, ElectronicsKeywords)) => c = BAGS_AND_CARRY
            /\ ~Mentions(raw, ElectronicsKeywords \cup BagKeywords
                            \cup ClothingKeywords \cup BottleKeywords
                            \cup DocumentKeywords \cup BookKeywords)
                  => c = OTHER_MISC
            /\ \A i \in 1..Len(PromptLabels) :
                  raw = PromptLabels[i] => c = LabelCategory[i]

\* the endpoint answered ELECTRONICS for a text that names a bag as well
C20_Witness ==
    /\ suggestion.via = "ajax"
    /\ lastReq = Req("analyze", "", Null, "ok")
    /\ Mentions(field_text(suggestion.call.world.parsed.category), BagKeywords)
    /\ <<"category", ELECTRONICS>> \in suggestion.mapping

\* C21: the image analysis, through analyze_images_ajax or as
\* analyze_item_images, creates, changes and deletes no Item, ItemImage, Claim
\* or StudentLostItem, whatever the input and however the external call ends.
C21_AnalysisWritesNothing ==
    [][\A call \in AdviseCalls :
         (\/ \E actor \in AdviseActors : analyze_images_ajax(actor, call)
          \/ analyze_item_images_call(call)) => UNCHANGED records]_vars

\* an analysis that raised, answered 500, in a store with rows in all tables
C21_Witness ==
    /\ lastReq = Req("analyze", "", Null, "server_error")
    /\ suggestion.via = "ajax" /\ suggestion.raised
    /\ DOMAIN items # {} /\ images # {} /\ claims # {} /\ DOMAIN students # {}

\* the time the queue is sorted by, read from the row an entry stands for
QueueTime(e) ==
    IF e.type = "admin_item" THEN items[e.pk].created_at
    ELSE students[e.pk].submitted_at

\* C22: the list of ApprovalQueueView.get_queryset holds exactly the PENDING
\* Items and the PENDING StudentLostItems, each once, in non-increasing order
\* of created_at / submitted_at across both kinds; a row that has just been
\* approved or rejected is in no list the view can return.
C22_QueueListsPending ==
    [][/\ (ApprovalQueueView_get("root") /\ lastReq'.status = "ok") =>
            LET q == staffPage'.rows IN
            /\ {<<q[i].type, q[i].pk>> : i \in DOMAIN q}
                  = ({"admin_item"} \X pending(items))
                      \cup ({"student_item"} \X pending(students))
            /\ Len(q) = Cardinality(pending(items))
                          + Cardinality(pending(students))
            /\ \A i, j \in DOMAIN q :
                  i < j => QueueTime(q[i]) >= QueueTime(q[j])
       /\ (lastReq'.op \in {"approve", "reject"}
              /\ lastReq'.status = "redirect") =>
            \A q \in ApprovalQueueView_get_queryset(items', students') :
              \A i \in DOMAIN q :
                <<q[i].type, q[i].pk>> #
                  <<IF lastReq'.kind = "admin" THEN "admin_item"
                    ELSE "student_item", lastReq'.pk>>]_vars

\* the queue after a rejection: a student report of today above the staff
\* upload of yesterday that is still waiting
C22_Witness ==
    /\ staffPage.view = "approval_queue"
    /\ Len(staffPage.rows) = 2
    /\ staffPage.rows[1].type = "student_item"
    /\ staffPage.rows[2].type = "admin_item"
    /\ staffPage.rows[1].at > staffPage.rows[2].at
    /\ \E pk \in DOMAIN items : items[pk].approval_status = REJECTED

\* the notifications a dashboard GET in the session holds: the recent claims
\* that were not dismissed there
Notified(session) ==
    {message_id(c) : c \in {x \in claims : x.claimed_at >= now - 7}}
        \ sessions[session]

\* C23: a dashboard GET holds at most one notification for a Claim; a
\* notification dismissed in a session stays dismissed there and is in no
\* later dashboard GET of that session; the other sessions keep theirs.
C23_DismissedStaysDismissed ==
    [][/\ \A session \in Sessions :
            /\ sessions[session] \subseteq sessions'[session]
            /\ (AdminDashboardView_get("amy", session)
                   /\ lastReq'.status = "ok") =>
                  LET rows == staffPage'.rows IN
                  /\ \A i, j \in DOMAIN rows :
                        i # j => rows[i].id[1] # rows[j].id[1]
                  /\ {rows[i].id : i \in DOMAIN rows} = Notified(session)
       /\ lastReq'.kind = "dismiss_message" =>
            \A session \in Sessions, claim \in claims :
              AdminDashboardView_post("amy", DismissBody(session, claim)) =>
                /\ message_id(claim) \in sessions'[session]
                /\ \A other \in Sessions \ {session} :
                      sessions'[other] = sessions[other]]_vars

\* a dashboard GET in a session where one claim was dismissed: it shows the
\* other claim, which is dismissed in the other session only
C23_Witness ==
    /\ lastReq = Req("dashboard", "", Null, "ok")
    /\ staffPage.view = "dashboard"
    /\ Len(staffPage.rows) = 1
    /\ {staffPage.rows[1].id} = Notified(staffPage.session)
    /\ sessions[staffPage.session] # {}
    /\ \E other \in Sessions \ {staffPage.session} :
          sessions[other] = {staffPage.rows[1].id}

\* every Claim and every ItemImage belongs to an Item of the store
OwnersExist ==
    /\ \A c \in claims : c.item \in DOMAIN items
    /\ \A i \in images : i.item \in DOMAIN items

\* C24: every Claim and every ItemImage references an Item that exists; the
\* dashboard's delete_item removes the item, its Claims and its ItemImages
\* and no row of another item.
C24_DeleteCascades ==
    /\ []OwnersExist
    /\ [][\A body \in OpsBodies :
            (body.item_id \in DOMAIN items
               /\ AdminDashboardView_post("amy", body)) =>
              /\ items' = Remove(items, body.item_id)
              /\ claims' = {c \in claims : c.item # body.item_id}
              /\ images' = {i \in images : i.item # body.item_id}
              /\ students' = students]_vars

\* an item was deleted with its claim and image; the other item keeps its
\* claim and its image
C24_Witness ==
    /\ lastReq.op = "dashboard_post" /\ lastReq.status = "ok"
    /\ lastReq.pk \notin DOMAIN items
    /\ nextClaimPk = 3 /\ Cardinality(claims) = 1
    /\ Cardinality(images) = 1
    /\ OwnersExist

\* C25: under the web operations run one after the other (upload, claim,
\* approve, reject, delete), every Item with at least one Claim has status
\* CLAIMED.
C25_ClaimedWhenItHasClaims ==
    \A pk \in DOMAIN items :
        claim_count(claims, pk) >= 1 => items[pk].status = CLAIMED

\* an item with two claims after the Super User decided on it
C25_Witness ==
    \E pk \in DOMAIN items :
        /\ lastReq.op \in {"approve", "reject"}
        /\ lastReq.status = "redirect"
        /\ lastReq.pk = pk
        /\ claim_count(claims, pk) = 2
        /\ items[pk].status = CLAIMED

\* C27: ClaimItemView.post has its full effect, a new Claim and the step
\* from FOUND to CLAIMED, on any existing item, whatever its approval_status
\* and item_type.
C27_ClaimIgnoresApproval ==
    [][lastReq'.op = "claim" =>
        \A pk \in DOMAIN items, name \in OpsNames :
          ClaimItemView_post(pk, name) =>
            /\ claim_count(claims', pk) = claim_count(claims, pk) + 1
            /\ items'[pk].status = CLAIMED
            /\ items[pk].status = FOUND =>
                  /\ items'[pk].claimed_by_name = strip(name)
                  /\ items'[pk].claimed_at # Null
            /\ lastReq'.status = "redirect"]_vars

\* a Primary Years item that was rejected, claimed all the same
C27_Witness ==
    \E pk \in DOMAIN items :
        /\ lastReq = Req("claim", "", pk, "redirect")
        /\ items[pk].approval_status = REJECTED
        /\ items[pk].item_type = PY
        /\ items[pk].status = CLAIMED
        /\ items[pk].claimed_at # Null
        /\ claim_count(claims, pk) = 1

\* the rows of the other items, the images and the student reports
Elsewhere(pk) ==
    <<[other \in DOMAIN items \ {pk} |-> items[other]],
      {c \in claims : c.item # pk}, images, students>>

C26_ClaimedItemsHaveClaim ==
    \A pk \in DOMAIN items :
        items[pk].status = CLAIMED =>
            /\ items[pk].claimed_at # Null
            /\ claim_count(claims, pk) >= 1

\* C29: an Item saved through ItemUploadConfirmView.post is stored with the
\* approval_status that ItemUploadView.post gives an upload of the same
\* actor, PENDING for the staff who may use it.
C29_ConfirmUploadIsPending ==
    [][(lastReq'.op = "upload_confirm" /\ lastReq'.status = "redirect") =>
        LET item == items'[lastReq'.pk] IN
        /\ item.approval_status = PENDING
        /\ item.approval_status = ItemUploadView_approval(item.created_by)]_vars

\* C30: the public pages of single records serve approved records only:
\* ItemDetailView an Item, StudentLostItemDetailView and
\* StudentLostItemsListView a StudentLostItem, only if its approval_status is
\* APPROVED.
C30_DetailServesApprovedOnly ==
    [][/\ (lastReq'.op = "item_detail" /\ lastReq'.status = "ok") =>
            \A pk \in ItemPks :
              ItemDetailView_get(pk) => items[pk].approval_status = APPROVED
       /\ (lastReq'.op = "student_lost_item_detail"
              /\ lastReq'.status = "ok") =>
            \A pk \in StudentPks :
              StudentLostItemDetailView_get(pk) =>
                students[pk].approval_status = APPROVED
       /\ lastReq'.op = "student_lost_items_list" =>
            \A q \in StudentQueries :
              StudentLostItemsListView_get(q) =>
                \A pk \in page'.object_list :
                  students[pk].approval_status = APPROVED]_vars

====
